---------------------------- MODULE Spec2Model ----------------------------
(***************************************************************************)
(* Model of FullMimoOfdmSystemSimV1.0.py: the Keras model                  *)
(* MimoOfdmSystemModel (its constructor and its forward pass, call) and    *)
(* the mobility study that drives it through sim_ber.                      *)
(*                                                                         *)
(* The signal-processing blocks (encoder, mapper, channel, ...) belong to  *)
(* an external library.  Each block is modelled by its interface: it       *)
(* returns a tensor named after the block that produced it, tagged with    *)
(* the forward pass it was produced in, and carrying the shape the block   *)
(* documents for its output.  Numeric tensor contents are not modelled.    *)
(*                                                                         *)
(* Frequencies are in units of 0.1 GHz (35 = 3.5e9 Hz), speeds in m/s.     *)
(***************************************************************************)
EXTENDS Integers, Sequences, FiniteSets

VARIABLES
    self,       \* the MimoOfdmSystemModel object (NoModel before __init__)
    cpc,        \* position inside MimoOfdmSystemModel: "new", "error", "idle",
                \* a statement of call, or "returned"
    loc,        \* the local variables of the running call
    trace,      \* the blocks invoked by the current/last call, in order
    calls,      \* tag of the current forward pass: 0 before the first, then
                \* 1, 2, 1, ... so that consecutive passes differ
    ret,        \* the pair returned by the last call
    spc,        \* position of the study script
    si,         \* index of the scenario the study loop is at
    sims,       \* MOBILITY_SIMS: ber, bler, duration
    start,      \* the script's start (time.time() at line 242)
    now,        \* the wall clock
    sim         \* the state of the running sim_ber

vars == <<self, cpc, loc, trace, calls, ret, spc, si, sims, start, now, sim>>

classVars == <<self, cpc, loc, trace, calls, ret>>
studyVars == <<spc, si, sims, start, now, sim>>

----------------------------------------------------------------------------
(* Bounds of the model *)

\* how far the wall clock is followed
MaxClock == 2

----------------------------------------------------------------------------
(* Parameters set inside __init__ *)

fft_size == 76
num_ofdm_symbols == 14
pilot_ofdm_symbol_indices == <<2, 11>>
num_bs_ant == 8
num_ut == 1
num_ut_ant == 4
num_bits_per_symbol == 2
\* 0.5 as a fraction <<numerator, denominator>>
coderate == <<1, 2>>

num_tx == num_ut
num_streams_per_tx == num_ut_ant

\* ResourceGrid(...) with the "kronecker" pilot pattern: every resource
\* element of a pilot OFDM symbol is a pilot or is left empty, on every stream
RgNumPilotSymbols == Len(pilot_ofdm_symbol_indices) * fft_size
RgNumDataSymbols == fft_size * num_ofdm_symbols - RgNumPilotSymbols

rg == [num_ofdm_symbols |-> num_ofdm_symbols,
       fft_size |-> fft_size,
       num_tx |-> num_tx,
       num_streams_per_tx |-> num_streams_per_tx,
       pilot_pattern |-> "kronecker",
       pilot_ofdm_symbol_indices |-> pilot_ofdm_symbol_indices,
       num_data_symbols |-> RgNumDataSymbols]

\* int(x) of a non-negative fraction a/b * m
IntOfProduct(m, frac) == (m * frac[1]) \div frac[2]

\* line 173: self._n
CodedBits == RgNumDataSymbols * num_bits_per_symbol
\* line 174 with the symbols in place of the coded bits
InfoBitsFromSymbols == IntOfProduct(RgNumDataSymbols, coderate)
\* line 174: self._k
InfoBits == IntOfProduct(CodedBits, coderate)

----------------------------------------------------------------------------
(* Values *)

Threegpp == {"umi", "uma", "rma"}
Cdl == {"A", "B", "C", "D", "E"}
Supported == Threegpp \cup Cdl
\* a scenario string none of the branches of __init__ matches
Unsupported == "umx"

\* MOBILITY_SIMS (lines 227-237)
EbnoDb == [p \in 1..20 |-> p - 6]
PerfectCsi == <<TRUE, FALSE>>
Direction == <<"uplink", "downlink">>
CarrierFrequency == <<35, 280, 600>>
Speed == <<0, 15, 30>>

Range(s) == {s[j] : j \in DOMAIN s}

\* a tensor: the block that produced it, the pass, its shape
T(src, pass, shape) == [src |-> src, pass |-> pass, shape |-> shape]
None == T("None", 0, <<>>)
\* the float literal 0.0
Zero == T("0.0", 0, <<>>)

\* no: the noise variance, a function of the arguments of ebnodb2no
RgNone == [num_ofdm_symbols |-> 0, fft_size |-> 0, num_tx |-> 0,
           num_streams_per_tx |-> 0, pilot_pattern |-> "None",
           pilot_ofdm_symbol_indices |-> <<>>, num_data_symbols |-> 0]
NoNone == [ebno_db |-> 0, num_bits_per_symbol |-> 0, coderate |-> <<0, 1>>,
           rg |-> RgNone]
EbnoDb2No(ebno_db, nbps, rate, grid) ==
    [ebno_db |-> ebno_db, num_bits_per_symbol |-> nbps, coderate |-> rate,
     rg |-> grid]

TopoNone == [batch_size |-> 0, num_ut |-> 0, scenario |-> "None",
             min_ut_velocity |-> 0, max_ut_velocity |-> 0, pass |-> 0]
NoSpeed == 0 - 1

NoModel == [constructed |-> FALSE]

LocNone == [batch_size |-> 0, ebno_db |-> 0, no |-> NoNone, b |-> None,
            c |-> None, x |-> None, x_rg |-> None, y |-> None, h |-> None,
            h_hat |-> None, err_var |-> None, x_hat |-> None,
            no_eff |-> None, llr |-> None, b_hat |-> None]

CmNone == [kind |-> "None", model |-> "None", carrier_frequency |-> 0,
           direction |-> "None", min_speed |-> NoSpeed, topology |-> TopoNone]

\* sim_ber: the point i it is at, the iterations ii and the block errors of
\* that point (before: the block errors ahead of the last pass), whether the
\* point has ended, whether the simulation was stopped, the rates so far
SimNone == [i |-> 0, ii |-> 0, block_errors |-> 0, before |-> 0,
            point_done |-> FALSE, stopped |-> FALSE, ber |-> <<>>,
            bler |-> <<>>]

\* MOBILITY_SIMS["duration"]: <<>> is None, <<d>> is the number d
DurationNone == <<>>

----------------------------------------------------------------------------
(* __init__ *)

\* lines 134-167: the if/elif chain that builds self._channel_model
ChannelModelSwapped(scenario, direction, speed, carrier_frequency) ==
    IF scenario = "umi"
    THEN [kind |-> "UMi", model |-> "None", carrier_frequency |-> carrier_frequency,
          direction |-> direction, min_speed |-> NoSpeed, topology |-> TopoNone]
    ELSE IF scenario = "uma"
    THEN [kind |-> "UMi", model |-> "None", carrier_frequency |-> carrier_frequency,
          direction |-> direction, min_speed |-> NoSpeed, topology |-> TopoNone]
    ELSE IF scenario = "rma"
    THEN [kind |-> "RMa", model |-> "None", carrier_frequency |-> carrier_frequency,
          direction |-> direction, min_speed |-> NoSpeed, topology |-> TopoNone]
    ELSE IF scenario \in Cdl
    THEN [kind |-> "CDL", model |-> scenario, carrier_frequency |-> carrier_frequency,
          direction |-> direction, min_speed |-> speed, topology |-> TopoNone]
    ELSE CmNone

ChannelModel(scenario, direction, speed, carrier_frequency) ==
    IF scenario = "umi"
    THEN [kind |-> "UMi", model |-> "None", carrier_frequency |-> carrier_frequency,
          direction |-> direction, min_speed |-> NoSpeed, topology |-> TopoNone]
    ELSE IF scenario = "uma"
    THEN [kind |-> "UMa", model |-> "None", carrier_frequency |-> carrier_frequency,
          direction |-> direction, min_speed |-> NoSpeed, topology |-> TopoNone]
    ELSE IF scenario = "rma"
    THEN [kind |-> "RMa", model |-> "None", carrier_frequency |-> carrier_frequency,
          direction |-> direction, min_speed |-> NoSpeed, topology |-> TopoNone]
    ELSE IF scenario = "A" \/ scenario = "B" \/ scenario = "C"
            \/ scenario = "D" \/ scenario = "E"
    THEN [kind |-> "CDL", model |-> scenario, carrier_frequency |-> carrier_frequency,
          direction |-> direction, min_speed |-> speed, topology |-> TopoNone]
    ELSE CmNone

\* the object __init__ leaves behind.  With a scenario no branch matches,
\* self._channel_model is never assigned and line 182 raises AttributeError.
NewModel(scenario, perfect_csi, direction, speed, carrier_frequency) ==
    [constructed |-> TRUE,
     scenario |-> scenario,
     perfect_csi |-> perfect_csi,
     direction |-> direction,
     speed |-> speed,
     carrier_frequency |-> carrier_frequency,
     num_tx |-> num_tx,
     num_streams_per_tx |-> num_streams_per_tx,
     rg |-> rg,
     channel_model |-> ChannelModel(scenario, direction, speed, carrier_frequency),
     n |-> CodedBits,
     k |-> InfoBits,
     \* OFDMChannel keeps a reference to self._channel_model
     ofdm_channel |-> [channel_model |-> "self._channel_model", add_awgn |-> TRUE,
                       normalize_channel |-> TRUE, return_channel |-> TRUE],
     ls_est |-> [interpolation_type |-> "nn"]]

Construct(scenario, perfect_csi, direction, speed, carrier_frequency) ==
    LET m == NewModel(scenario, perfect_csi, direction, speed, carrier_frequency)
    IN  /\ self' = IF m.channel_model = CmNone THEN NoModel ELSE m
        /\ cpc' = IF m.channel_model = CmNone THEN "error" ELSE "idle"
        /\ loc' = LocNone
        /\ trace' = <<>>
        /\ calls' = 0
        /\ ret' = <<None, None>>

----------------------------------------------------------------------------
(* The blocks, by interface *)

ReplaceLast(shape, d) == [shape EXCEPT ![Len(shape)] = d]
Last(shape) == shape[Len(shape)]

\* the receiving and the transmitting array of a direction
NumRxAnt(direction) == IF direction = "uplink" THEN num_bs_ant ELSE num_ut_ant
NumTxAnt(direction) == IF direction = "uplink" THEN num_ut_ant ELSE num_bs_ant

BinarySource(shape, pass) == T("binary_source", pass, shape)
Encoder(m, b) == T("encoder", b.pass, ReplaceLast(b.shape, m.n))
Mapper(c) == T("mapper", c.pass,
               ReplaceLast(c.shape, Last(c.shape) \div num_bits_per_symbol))
RgMapper(m, x) ==
    T("rg_mapper", x.pass,
      <<x.shape[1], m.rg.num_tx, m.rg.num_streams_per_tx,
        m.rg.num_ofdm_symbols, m.rg.fft_size>>)
\* OFDMChannel(..., return_channel=True) returns the pair y, h
OfdmChannel(m, x_rg) ==
    <<T("ofdm_channel.y", x_rg.pass,
        <<x_rg.shape[1], 1, NumRxAnt(m.direction),
          m.rg.num_ofdm_symbols, m.rg.fft_size>>),
      T("ofdm_channel.h", x_rg.pass,
        <<x_rg.shape[1], 1, NumRxAnt(m.direction), m.rg.num_tx,
          NumTxAnt(m.direction), m.rg.num_ofdm_symbols, m.rg.fft_size>>)>>
\* the grid has no guard carriers and no nulled DC carrier
RemoveNulledSubcarriers(h) == T("remove_nulled_subcarriers", h.pass, h.shape)
\* LSChannelEstimator returns the pair h_hat, err_var
LsEst(m, y) ==
    LET shape == <<y.shape[1], 1, y.shape[3], m.rg.num_tx,
                   m.rg.num_streams_per_tx, m.rg.num_ofdm_symbols,
                   m.rg.fft_size>>
    IN  <<T("ls_est.h_hat", y.pass, shape), T("ls_est.err_var", y.pass, shape)>>
\* LMMSEEqualizer returns the pair x_hat, no_eff
LmmseEqu(m, y) ==
    LET shape == <<y.shape[1], m.rg.num_tx, m.rg.num_streams_per_tx,
                   m.rg.num_data_symbols>>
    IN  <<T("lmmse_equ.x_hat", y.pass, shape),
          T("lmmse_equ.no_eff", y.pass, shape)>>
Demapper(x_hat) ==
    T("demapper", x_hat.pass,
      ReplaceLast(x_hat.shape, Last(x_hat.shape) * num_bits_per_symbol))
\* LDPC5GDecoder(encoder) returns the information bits
Decoder(m, llr) == T("decoder", llr.pass, ReplaceLast(llr.shape, m.k))

\* gen_single_sector_topology(...) as called by new_topology (lines 192-196)
GenTopology(m, batch_size, pass) ==
    [batch_size |-> batch_size, num_ut |-> num_ut, scenario |-> m.scenario,
     min_ut_velocity |-> m.speed, max_ut_velocity |-> m.speed, pass |-> pass]

\* one invoked block: its tensor arguments, the noise variance it was given,
\* its results, and the channel model it worked on
Entry(stage, ins, no, outs, cm) ==
    [stage |-> stage, ins |-> ins, no |-> no, outs |-> outs, cm |-> cm]

----------------------------------------------------------------------------
(* call: what each statement reads *)

\* line 206, without the third comparison
NeedsTopologyNoRma(m) == m.scenario = "umi" \/ m.scenario = "uma"
\* line 206
NeedsTopology(m) ==
    m.scenario = "umi" \/ m.scenario = "uma" \/ m.scenario = "rma"

\* line 211, with the information bits in place of the codeword
MapperInUncoded(l) == l.b
\* line 211: the argument of the mapper
MapperIn(l) == l.c

\* line 214, with the branches exchanged
UsePerfectCsiInverted(m) == ~m.perfect_csi
\* line 214
UsePerfectCsi(m) == m.perfect_csi

\* line 219, with the noise variance of an uncoded link
EqualizerNoUncoded(m, l) ==
    EbnoDb2No(l.ebno_db, num_bits_per_symbol, <<1, 1>>, m.rg)
\* line 219: the no handed to the equalizer
EqualizerNo(m, l) == l.no

----------------------------------------------------------------------------
(* call, statement by statement (lines 204-222).  A frame holds what a     *)
(* running call works on: the object, the locals, the blocks invoked.      *)

Frame(m, l, tr, pass) == [self |-> m, loc |-> l, trace |-> tr, pass |-> pass]

\* entering call(batch_size, ebno_db)
Enter(m, pass, batch_size, ebno_db) ==
    Frame(m, [LocNone EXCEPT !.batch_size = batch_size, !.ebno_db = ebno_db],
          <<>>, pass)

\* lines 206-207: new_topology(batch_size) for the 3GPP scenarios
StTopology(f) ==
    IF NeedsTopology(f.self)
    THEN LET topology == GenTopology(f.self, f.loc.batch_size, f.pass)
             cm == [f.self.channel_model EXCEPT !.topology = topology]
         IN  [f EXCEPT !.self.channel_model = cm,
                       !.trace = Append(@, Entry("new_topology", <<>>, NoNone,
                                                 <<>>, cm))]
    ELSE f

\* line 208
StNo(f) ==
    [f EXCEPT !.loc.no = EbnoDb2No(f.loc.ebno_db, num_bits_per_symbol,
                                   coderate, f.self.rg)]

\* line 209
StSource(f) ==
    LET b == BinarySource(<<f.loc.batch_size, f.self.num_tx,
                            f.self.num_streams_per_tx, f.self.k>>, f.pass)
    IN  [f EXCEPT !.loc.b = b,
                  !.trace = Append(@, Entry("binary_source", <<>>, NoNone,
                                            <<b>>, CmNone))]

\* line 210
StEncode(f) ==
    LET c == Encoder(f.self, f.loc.b)
    IN  [f EXCEPT !.loc.c = c,
                  !.trace = Append(@, Entry("encoder", <<f.loc.b>>, NoNone,
                                            <<c>>, CmNone))]

\* line 211
StMap(f) ==
    LET x == Mapper(MapperIn(f.loc))
    IN  [f EXCEPT !.loc.x = x,
                  !.trace = Append(@, Entry("mapper", <<MapperIn(f.loc)>>,
                                            NoNone, <<x>>, CmNone))]

\* line 212
StRgMap(f) ==
    LET x_rg == RgMapper(f.self, f.loc.x)
    IN  [f EXCEPT !.loc.x_rg = x_rg,
                  !.trace = Append(@, Entry("rg_mapper", <<f.loc.x>>, NoNone,
                                            <<x_rg>>, CmNone))]

\* line 213: the channel works on the object self._channel_model refers to
StChannel(f) ==
    LET yh == OfdmChannel(f.self, f.loc.x_rg)
    IN  [f EXCEPT !.loc.y = yh[1], !.loc.h = yh[2],
                  !.trace = Append(@, Entry("ofdm_channel", <<f.loc.x_rg>>,
                                            f.loc.no, yh,
                                            f.self.channel_model))]

\* lines 214-218
StCsi(f) ==
    IF UsePerfectCsi(f.self)
    THEN LET h_hat == RemoveNulledSubcarriers(f.loc.h)
         IN  [f EXCEPT !.loc.h_hat = h_hat, !.loc.err_var = Zero,
                       !.trace = Append(@, Entry("remove_nulled_subcarriers",
                                                 <<f.loc.h>>, NoNone,
                                                 <<h_hat>>, CmNone))]
    ELSE LET est == LsEst(f.self, f.loc.y)
         IN  [f EXCEPT !.loc.h_hat = est[1], !.loc.err_var = est[2],
                       !.trace = Append(@, Entry("ls_est", <<f.loc.y>>,
                                                 f.loc.no, est, CmNone))]

\* line 219
StEqualize(f) ==
    LET eq == LmmseEqu(f.self, f.loc.y)
    IN  [f EXCEPT !.loc.x_hat = eq[1], !.loc.no_eff = eq[2],
                  !.trace = Append(@, Entry("lmmse_equ",
                                            <<f.loc.y, f.loc.h_hat, f.loc.err_var>>,
                                            EqualizerNo(f.self, f.loc), eq,
                                            CmNone))]

\* line 220
StDemap(f) ==
    LET llr == Demapper(f.loc.x_hat)
    IN  [f EXCEPT !.loc.llr = llr,
                  !.trace = Append(@, Entry("demapper",
                                            <<f.loc.x_hat, f.loc.no_eff>>,
                                            NoNone, <<llr>>, CmNone))]

\* line 221
StDecode(f) ==
    LET b_hat == Decoder(f.self, f.loc.llr)
    IN  [f EXCEPT !.loc.b_hat = b_hat,
                  !.trace = Append(@, Entry("decoder", <<f.loc.llr>>, NoNone,
                                            <<b_hat>>, CmNone))]

\* line 222: the pair call returns
Returned(f) == <<f.loc.b, f.loc.b_hat>>

\* a whole forward pass: the statements of call in the order of the source
\* (sNNN: the frame after the statement of line NNN)
RunCall(m, pass, batch_size, ebno_db) ==
    LET entered == {Enter(m, pass, batch_size, ebno_db)}
        s206 == {StTopology(f) : f \in entered}
        s208 == {StNo(f) : f \in s206}
        s209 == {StSource(f) : f \in s208}
        s210 == {StEncode(f) : f \in s209}
        s211 == {StMap(f) : f \in s210}
        s212 == {StRgMap(f) : f \in s211}
        s213 == {StChannel(f) : f \in s212}
        s214 == {StCsi(f) : f \in s213}
        s219 == {StEqualize(f) : f \in s214}
        s220 == {StDemap(f) : f \in s219}
        s221 == {StDecode(f) : f \in s220}
    IN  CHOOSE f \in s221 : TRUE

\* the tag of the pass after the one tagged pass
NextPass(pass) == (pass % 2) + 1

----------------------------------------------------------------------------
(* call as steps of the running program *)

Here == Frame(self, loc, trace, calls)

\* the statement at cpc runs and control moves to the statement at to
Run(at, f, to) ==
    /\ cpc = at
    /\ self' = f.self
    /\ loc' = f.loc
    /\ trace' = f.trace
    /\ cpc' = to
    /\ UNCHANGED <<calls, ret>>

CallBegin(batch_size, ebno_db) ==
    /\ cpc = "idle"
    /\ self.constructed
    /\ cpc' = "topology"
    /\ calls' = NextPass(calls)
    /\ loc' = Enter(self, calls', batch_size, ebno_db).loc
    /\ trace' = <<>>
    /\ UNCHANGED <<self, ret>>

TopologyStep == Run("topology", StTopology(Here), "no")
ComputeNo == Run("no", StNo(Here), "source")
Source == Run("source", StSource(Here), "encoder")
Encode == Run("encoder", StEncode(Here), "mapper")
Map == Run("mapper", StMap(Here), "rg_mapper")
RgMap == Run("rg_mapper", StRgMap(Here), "ofdm_channel")
ApplyChannel == Run("ofdm_channel", StChannel(Here), "csi")
AcquireCsi == Run("csi", StCsi(Here), "lmmse_equ")
Equalize == Run("lmmse_equ", StEqualize(Here), "demapper")
Demap == Run("demapper", StDemap(Here), "decoder")
Decode == Run("decoder", StDecode(Here), "return")

Return ==
    /\ cpc = "return"
    /\ ret' = Returned(Here)
    /\ cpc' = "returned"
    /\ UNCHANGED <<self, loc, trace, calls>>

----------------------------------------------------------------------------
(* The class on its own: any construction, then forward passes *)

BatchSizes == {1, 76}
CallEbnoDb == {EbnoDb[1], EbnoDb[6], EbnoDb[20]}

ClassInit ==
    /\ self = NoModel
    /\ cpc = "new"
    /\ loc = LocNone
    /\ trace = <<>>
    /\ calls = 0
    /\ ret = <<None, None>>
    /\ spc = "none"
    /\ si = 0
    /\ sims = [scenario |-> <<>>, ber |-> <<>>, bler |-> <<>>,
               duration |-> DurationNone]
    /\ start = 0
    /\ now = 0
    /\ sim = SimNone

ClientConstruct ==
    /\ cpc = "new"
    /\ \E scenario \in Supported \cup {Unsupported},
          perfect_csi \in Range(PerfectCsi),
          direction \in Range(Direction),
          speed \in Range(Speed),
          carrier_frequency \in Range(CarrierFrequency) :
            Construct(scenario, perfect_csi, direction, speed, carrier_frequency)
    /\ UNCHANGED studyVars

\* The passes followed are uplink passes, the direction the study uses
\* (line 249): there the transmitting array has one antenna per stream.
ClientCall ==
    /\ self.constructed
    /\ self.direction = "uplink"
    /\ \E batch_size \in BatchSizes, ebno_db \in CallEbnoDb :
           CallBegin(batch_size, ebno_db)
    /\ UNCHANGED studyVars

ClientReceive ==
    /\ cpc = "returned"
    /\ cpc' = "idle"
    /\ UNCHANGED <<self, loc, trace, calls, ret>>
    /\ UNCHANGED studyVars

Next ==
    \/ ClientConstruct
    \/ ClientCall
    \/ TopologyStep /\ UNCHANGED studyVars
    \/ ComputeNo /\ UNCHANGED studyVars
    \/ Source /\ UNCHANGED studyVars
    \/ Encode /\ UNCHANGED studyVars
    \/ Map /\ UNCHANGED studyVars
    \/ RgMap /\ UNCHANGED studyVars
    \/ ApplyChannel /\ UNCHANGED studyVars
    \/ AcquireCsi /\ UNCHANGED studyVars
    \/ Equalize /\ UNCHANGED studyVars
    \/ Demap /\ UNCHANGED studyVars
    \/ Decode /\ UNCHANGED studyVars
    \/ Return /\ UNCHANGED studyVars
    \/ ClientReceive

Spec == ClassInit /\ [][Next]_vars

----------------------------------------------------------------------------
(* sim_ber, the library's Monte-Carlo driver, by its documented behaviour *)

\* lines 253-257, with two keyword values exchanged
SimBerArgsExchanged ==
    [batch_size |-> 76, max_mc_iter |-> 1000, num_target_block_errors |-> 100]
\* lines 253-257: the arguments the study gives sim_ber
SimBerArgs ==
    [batch_size |-> 76, max_mc_iter |-> 100, num_target_block_errors |-> 1000]

\* sim_ber's default: stop the whole simulation after the first Eb/N0 point
\* that ends all its iterations without a single error
early_stop == TRUE

\* the blocks one forward pass carries: the entries of b without the last axis
BlocksPerPass(b) == b.shape[1] * b.shape[2] * b.shape[3]
\* block errors counted in one pass; of 0 .. BlocksPerPass the model follows
\* the two ends
BlockErrorsOf(b) == {0, BlocksPerPass(b)}

\* one entry of a returned error-rate tensor: the rate of a metric measured
\* on a scenario's model at an Eb/N0 point
Rate(metric, scenario, ebno_db) ==
    [metric |-> metric, scenario |-> scenario, ebno_db |-> ebno_db]

\* the returned tensor has one entry per Eb/N0 point; the entries of the
\* points never simulated are 0
Fill(metric, scenario, rates, ebno_dbs) ==
    [p \in 1..Len(ebno_dbs) |->
        IF p <= Len(rates) THEN rates[p]
        ELSE Rate(metric, scenario, ebno_dbs[p])]

----------------------------------------------------------------------------
(* The study (lines 227-262) *)

\* MOBILITY_SIMS["scenario"]: the list of line 229 and the one its comment keeps
StudyScenarios == {<<"umi">>, <<"umi", "uma", "rma">>}

StudyInit ==
    /\ self = NoModel
    /\ cpc = "new"
    /\ loc = LocNone
    /\ trace = <<>>
    /\ calls = 0
    /\ ret = <<None, None>>
    /\ spc = "start"
    /\ si = 1
    /\ \E scenario \in StudyScenarios :
           sims = [scenario |-> scenario, ber |-> <<>>, bler |-> <<>>,
                   duration |-> DurationNone]
    /\ start = 0
    /\ now = 0
    /\ sim = SimNone

\* The wall clock moves on (it is taken not to be set back while the study
\* runs).  Time is counted from the moment the script reads it at line 242;
\* the only other read is at line 262, so the clock is followed right
\* before that read.
Tick ==
    /\ spc = "for"
    /\ si > Len(sims.scenario)
    /\ now < MaxClock
    /\ now' = now + 1
    /\ UNCHANGED <<spc, si, sims, start, sim>>
    /\ UNCHANGED classVars

\* line 262 with the operands exchanged
ElapsedExchanged(t0, t1) == t0 - t1
\* line 262: time.time() - start
Elapsed(t0, t1) == t1 - t0

\* line 242
ReadStart ==
    /\ spc = "start"
    /\ start' = now
    /\ spc' = "for"
    /\ UNCHANGED <<si, sims, now, sim>>
    /\ UNCHANGED classVars

\* lines 244-251: the next scenario's model
ForScenario ==
    /\ spc = "for"
    /\ si <= Len(sims.scenario)
    /\ Construct(sims.scenario[si], PerfectCsi[2], Direction[1], Speed[1],
                 CarrierFrequency[1])
    /\ spc' = IF cpc' = "error" THEN "raised" ELSE "sim_ber"
    /\ UNCHANGED <<si, sims, start, now, sim>>

\* line 253: sim_ber starts at the first Eb/N0 point
SimBerBegin ==
    /\ spc = "sim_ber"
    /\ sim' = [SimNone EXCEPT !.i = 1]
    /\ spc' = "mc"
    /\ UNCHANGED <<si, sims, start, now>>
    /\ UNCHANGED classVars

\* One Monte-Carlo iteration of the current point: a forward pass
\* model(batch_size, ebno_dbs[i]), then its errors are counted; the point
\* ends on the target or on the last iteration.
SimBerIter ==
    /\ spc = "mc"
    /\ cpc = "idle"
    /\ ~sim.stopped
    /\ sim.i <= Len(EbnoDb)
    /\ ~sim.point_done
    /\ \E f \in {RunCall(self, NextPass(calls), SimBerArgs.batch_size,
                         EbnoDb[sim.i])} :
           /\ self' = f.self
           /\ loc' = f.loc
           /\ trace' = f.trace
           /\ calls' = f.pass
           /\ ret' = Returned(f)
           /\ cpc' = "idle"
           /\ \E e \in BlockErrorsOf(Returned(f)[1]) :
                 LET errors == sim.block_errors + e
                     iters == sim.ii + 1
                 IN  sim' = [sim EXCEPT
                         !.before = sim.block_errors,
                         !.block_errors = errors,
                         !.ii = iters,
                         !.point_done =
                             \/ errors >= SimBerArgs.num_target_block_errors
                             \/ iters >= SimBerArgs.max_mc_iter]
    /\ UNCHANGED <<spc, si, sims, start, now>>

\* the point's rates are kept; on to the next point, unless the point had no
\* error at all
SimBerNextPoint ==
    /\ spc = "mc"
    /\ ~sim.stopped
    /\ sim.point_done
    /\ sim' = [sim EXCEPT
           !.ber = Append(@, Rate("ber", self.scenario, EbnoDb[sim.i])),
           !.bler = Append(@, Rate("bler", self.scenario, EbnoDb[sim.i])),
           !.stopped = early_stop /\ sim.block_errors = 0,
           !.i = @ + 1,
           !.ii = 0,
           !.before = 0,
           !.block_errors = 0,
           !.point_done = FALSE]
    /\ UNCHANGED <<spc, si, sims, start, now>>
    /\ UNCHANGED classVars

\* sim_ber returns one rate per Eb/N0 point
SimBerReturn ==
    /\ spc = "mc"
    /\ sim.stopped \/ sim.i > Len(EbnoDb)
    /\ sim' = [sim EXCEPT
           !.ber = Fill("ber", self.scenario, @, EbnoDb),
           !.bler = Fill("bler", self.scenario, @, EbnoDb)]
    /\ spc' = "append_ber"
    /\ UNCHANGED <<si, sims, start, now>>
    /\ UNCHANGED classVars

\* line 259
AppendBer ==
    /\ spc = "append_ber"
    /\ sims' = [sims EXCEPT !.ber = Append(@, sim.ber)]
    /\ spc' = "append_bler"
    /\ UNCHANGED <<si, start, now, sim>>
    /\ UNCHANGED classVars

\* line 260, then back to the head of the loop
AppendBler ==
    /\ spc = "append_bler"
    /\ sims' = [sims EXCEPT !.bler = Append(@, sim.bler)]
    /\ si' = si + 1
    /\ spc' = "for"
    /\ UNCHANGED <<start, now, sim>>
    /\ UNCHANGED classVars

\* line 262
Finish ==
    /\ spc = "for"
    /\ si > Len(sims.scenario)
    /\ sims' = [sims EXCEPT !.duration = <<Elapsed(start, now)>>]
    /\ spc' = "done"
    /\ UNCHANGED <<si, start, now, sim>>
    /\ UNCHANGED classVars

StudyNext ==
    \/ Tick
    \/ ReadStart
    \/ ForScenario
    \/ SimBerBegin
    \/ SimBerIter
    \/ SimBerNextPoint
    \/ SimBerReturn
    \/ AppendBer
    \/ AppendBler
    \/ Finish

StudySpec == StudyInit /\ [][StudyNext]_vars

----------------------------------------------------------------------------
(* Reading the blocks a call invoked *)

Stages(tr) == [j \in DOMAIN tr |-> tr[j].stage]
At(tr, stage) == {j \in DOMAIN tr : tr[j].stage = stage}
IsChainStage(e) == e.stage \notin {"new_topology", "binary_source"}
\* the blocks of the transmission chain, without the bit source and the
\* topology
Chain(tr) == SelectSeq(tr, IsChainStage)
IsPrefix(s, t) == Len(s) <= Len(t) /\ \A j \in DOMAIN s : s[j] = t[j]
Completed == cpc \in {"return", "returned"}

ChainWithEstimation ==
    <<"encoder", "mapper", "rg_mapper", "ofdm_channel", "ls_est",
      "lmmse_equ", "demapper", "decoder">>
ChainWithPerfectCsi ==
    <<"encoder", "mapper", "rg_mapper", "ofdm_channel",
      "remove_nulled_subcarriers", "lmmse_equ", "demapper", "decoder">>

\* every block of the chain reads a result of the block right before it, and
\* the first one reads the bits of the source
Linked(tr) ==
    LET chain == Chain(tr)
    IN  /\ \A j \in 2..Len(chain) :
              \E t \in Range(chain[j].ins) : t \in Range(chain[j-1].outs)
        /\ \A j \in DOMAIN chain : \A t \in Range(chain[j].ins) : t # None
        /\ Len(chain) >= 1 =>
              \E j \in At(tr, "binary_source") : chain[1].ins = tr[j].outs

----------------------------------------------------------------------------
(* C1 *)

----------------------------------------------------------------------------
(* C2 *)

\* C2: perfect_csi alone chooses the channel state of the equalizer.  With
\* perfect_csi the equalizer gets the channel returned by the channel stage
\* with the nulled subcarriers removed and the error variance 0.0, and the LS
\* estimator is not invoked; without it the equalizer gets the estimate and
\* the error variance the LS estimator made from the received signal and the
\* noise variance, and the true channel does not reach the equalizer.
C2_CsiSelection ==
    self.constructed =>
        \A j \in At(trace, "lmmse_equ") :
            \E c \in At(trace, "ofdm_channel") :
                LET y == trace[c].outs[1]
                    h == trace[c].outs[2]
                    eq == trace[j].ins
                IN  /\ c < j
                    /\ eq[1] = y
                    /\ IF self.perfect_csi
                       THEN /\ At(trace, "ls_est") = {}
                            /\ \E r \in At(trace, "remove_nulled_subcarriers") :
                                  /\ trace[r].ins = <<h>>
                                  /\ eq[2] = trace[r].outs[1]
                            /\ eq[3] = Zero
                       ELSE /\ At(trace, "remove_nulled_subcarriers") = {}
                            /\ \E l \in At(trace, "ls_est") :
                                  /\ trace[l].ins = <<y>>
                                  /\ trace[l].no = loc.no
                                  /\ eq[2] = trace[l].outs[1]
                                  /\ eq[3] = trace[l].outs[2]
                            /\ h \notin Range(eq)

C2_Witness ==
    /\ self.constructed
    /\ self.perfect_csi
    /\ self.scenario = "umi"
    /\ At(trace, "lmmse_equ") # {}
    /\ loc.err_var = Zero

----------------------------------------------------------------------------
(* C3 *)

KindOf(scenario) ==
    CASE scenario = "umi" -> "UMi"
      [] scenario = "uma" -> "UMa"
      [] scenario = "rma" -> "RMa"
      [] scenario \in Cdl -> "CDL"
      [] OTHER -> "None"

IsSelected(cm) ==
    /\ cm.kind = KindOf(self.scenario)
    /\ cm.model = IF self.scenario \in Cdl THEN self.scenario ELSE "None"
    /\ cm.direction = self.direction
    /\ cm.carrier_frequency = self.carrier_frequency

\* C3: the constructor selects the channel model from the scenario string:
\* "umi" UMi, "uma" UMa, "rma" RMa, "A".."E" the CDL model of that letter,
\* built with the constructor's direction and carrier frequency; the channel
\* stage of every later forward pass works on that model.
C3_ChannelModelSelection ==
    /\ self.constructed =>
          /\ self.scenario \in Supported
          /\ IsSelected(self.channel_model)
          /\ \A j \in At(trace, "ofdm_channel") : IsSelected(trace[j].cm)
    /\ cpc = "error" => ~self.constructed

C3_Witness ==
    /\ self.constructed
    /\ self.scenario = "uma"
    /\ self.direction = "uplink"
    /\ self.carrier_frequency = CarrierFrequency[2]
    /\ calls = 2
    /\ At(trace, "ofdm_channel") # {}

----------------------------------------------------------------------------
(* C6 *)

\* C6: a forward pass sets a new topology exactly for "umi", "uma", "rma":
\* there every pass sets it before its channel stage, with the pass's batch
\* size and both velocity limits equal to speed; for "A".."E" no topology is
\* ever set and speed reaches the channel through the CDL model's min_speed
\* only.
C6_Topology ==
    self.constructed =>
        /\ calls > 0 /\ cpc # "topology" =>
              (At(trace, "new_topology") # {} <=> self.scenario \in Threegpp)
        /\ Cardinality(At(trace, "new_topology")) <= 1
        /\ self.scenario \in Threegpp =>
              /\ self.channel_model.min_speed = NoSpeed
              /\ \A j \in At(trace, "ofdm_channel") :
                    /\ \E t \in At(trace, "new_topology") : t < j
                    /\ trace[j].cm.topology =
                          [batch_size |-> loc.batch_size, num_ut |-> num_ut,
                           scenario |-> self.scenario,
                           min_ut_velocity |-> self.speed,
                           max_ut_velocity |-> self.speed, pass |-> calls]
        /\ self.scenario \in Cdl =>
              /\ self.channel_model.topology = TopoNone
              /\ self.channel_model.min_speed = self.speed
              /\ \A j \in DOMAIN trace : trace[j].cm.topology = TopoNone

C6_Witness ==
    /\ self.constructed
    /\ self.scenario = "rma"
    /\ self.speed = Speed[2]
    /\ calls = 2
    /\ loc.batch_size = 1
    /\ At(trace, "ofdm_channel") # {}

----------------------------------------------------------------------------
(* C7 *)

TakesNo == {"ofdm_channel", "ls_est", "lmmse_equ"}

----------------------------------------------------------------------------
(* C8 *)

\* C8: n is the number of data symbols of the grid times the 2 bits per
\* symbol, k is n times the code rate 0.5 rounded down, so 0 < k < n and
\* 2*k = n; the 76 subcarriers are a multiple of the 1*4 streams; the pass
\* returns b and b_hat, both of shape [batch_size, 1, 4, k].
C8_BlockSizes ==
    self.constructed =>
        /\ self.rg.fft_size = 76 /\ self.rg.num_ofdm_symbols = 14
        /\ self.rg.pilot_ofdm_symbol_indices = <<2, 11>>
        /\ self.num_tx = 1 /\ self.num_streams_per_tx = 4
        /\ self.n = self.rg.num_data_symbols * 2
        /\ 2 * self.k <= self.n /\ self.n < 2 * (self.k + 1)
        /\ 0 < self.k /\ self.k < self.n
        /\ 2 * self.k = self.n
        /\ self.rg.fft_size % (self.num_tx * self.num_streams_per_tx) = 0
        /\ cpc = "returned" =>
              /\ ret[1] = loc.b /\ ret[2] = loc.b_hat
              /\ ret[1].src = "binary_source" /\ ret[2].src = "decoder"
              /\ ret[1].shape = <<loc.batch_size, 1, 4, self.k>>
              /\ ret[2].shape = ret[1].shape

C8_Witness ==
    /\ self.constructed
    /\ cpc = "returned"
    /\ loc.batch_size = 76
    /\ ret[2].shape = <<76, 1, 4, 912>>

----------------------------------------------------------------------------
(* C4 *)

\* what holds of the Monte-Carlo loop of the point sim_ber is at: passes of
\* batch size 76, at most 100 of them, none after the one that brought the
\* block errors to 1000, and the loop has ended exactly when the target or
\* the 100th iteration is reached
C4_PointLoop ==
    spc = "mc" =>
        /\ sim.ii <= 100
        /\ sim.ii > 0 =>
              /\ sim.before < 1000
              /\ loc.batch_size = 76
              /\ loc.ebno_db = EbnoDb[sim.i]
        /\ sim.point_done <=> (sim.block_errors >= 1000 \/ sim.ii = 100)

\* sim_ber goes on to the next point only from a loop that has ended
C4_PointLeft ==
    (spc = "mc" /\ spc' = "mc" /\ sim'.i # sim.i) =>
        /\ sim.point_done
        /\ sim'.i = sim.i + 1
        /\ sim'.stopped <=> sim.block_errors = 0

\* the steps sim_ber has left at most: every step of its loops uses one up
C4_StepsLeft(st) ==
    (Len(EbnoDb) + 1 - st.i) * (SimBerArgs.max_mc_iter + 2)
        + (SimBerArgs.max_mc_iter - st.ii) + (IF st.point_done THEN 0 ELSE 1)

\* while sim_ber runs it can always take a step, and each step brings its
\* return nearer: it returns
C4_CanStep ==
    spc = "mc" =>
        /\ ENABLED (SimBerIter \/ SimBerNextPoint \/ SimBerReturn)
        /\ sim.i <= Len(EbnoDb) + 1
        /\ C4_StepsLeft(sim) >= 0
C4_Nearer ==
    (spc = "mc" /\ spc' = "mc") => C4_StepsLeft(sim') < C4_StepsLeft(sim)

----------------------------------------------------------------------------
(* C5 *)

=============================================================================
